---- MODULE Spec2Model ----
(***************************************************************************)
(* BasePruner (torch/ao/sparsity/experimental/pruner/base_pruner.py) as a  *)
(* state machine: prepare, step, squash_mask, get_module_pruned_outputs    *)
(* and make_config_from_model acting on a module tree.                     *)
(*                                                                         *)
(* Strings are sequences of tokens (a name, or the dot), so that           *)
(* concatenation, slicing and split(".") are computed, not assumed.        *)
(* A tensor is the sequence of its dimension-0 rows: row i of the original *)
(* tensor is the number i+1, a zeroed row is 0.                            *)
(***************************************************************************)
EXTENDS Integers, Sequences, FiniteSets, TLC

\* dimension-0 size of every prunable tensor of the model tree
NumOutputs == 2

\* how many squash_mask outcomes the history keeps
MaxLog == 2

\* a pruner that is prepared again is prepared while it holds fewer groups
MaxGroups == 2

Idx == 0 .. (NumOutputs - 1)

Dot == "."
EmptyStr == <<>>
WeightStr == <<"weight">>
DotWeight == <<Dot, "weight">>
\* Python's None where a string is expected
NoneStr == <<"None">>
\* Python's None where a module is expected
NoneMod == "None"

(***************************************************************************)
(* The module tree the pruner is applied to.                               *)
(***************************************************************************)
Modules == {"root", "conv", "bn", "seq", "fc", "sub", "emb", "bnsub"}

TypeOf(m) ==
    CASE m = "root" -> "Sequential"
      [] m = "conv" -> "Conv2d"
      [] m = "bn"   -> "BatchNorm2d"
      [] m = "seq"  -> "Sequential"
      [] m = "fc"   -> "Linear"
      [] m = "sub"  -> "LinearSub"
      [] m = "emb"  -> "Embedding"
      [] m = "bnsub" -> "BatchNorm2dSub"
      [] OTHER      -> "NoneType"

\* the classes a type is an instance of (itself and its bases)
Mro(t) ==
    CASE t = "LinearSub"      -> {"LinearSub", "Linear"}
      [] t = "BatchNorm2dSub" -> {"BatchNorm2dSub", "BatchNorm2d"}
      [] OTHER                -> {t}

IsInstance(m, types) == Mro(TypeOf(m)) \cap types # {}

\* named_children(): <<name, child>> pairs in registration order
NamedChildren(m) ==
    CASE m = "root" -> << <<"conv", "conv">>, <<"bn", "bn">>,
                          <<"seq", "seq">>, <<"emb", "emb">> >>
      [] m = "seq"  -> << <<"fc", "fc">>, <<"sub", "sub">>,
                          <<"bnsub", "bnsub">> >>
      [] OTHER      -> << >>

\* modules that own a weight tensor, and those constructed with a bias
HasWeight(m) == m \in {"conv", "bn", "fc", "sub", "emb", "bnsub"}
HasBiasInit(m) == m \in {"conv", "bn", "fc", "bnsub"}

SUPPORTED_MODULES == {"Linear", "Conv2d", "BatchNorm2d"}
NEEDS_ZEROS == {"BatchNorm2d"}

(***************************************************************************)
(* torch.ao.sparsity utilities                                             *)
(***************************************************************************)
RECURSIVE module_to_fqn(_, _, _)
RECURSIVE FqnInChildren(_, _, _, _)

\* the loop over model.named_children() of module_to_fqn, from child i on
FqnInChildren(model, module, prefix, i) ==
    IF i > Len(NamedChildren(model)) THEN NoneStr
    ELSE LET name == NamedChildren(model)[i][1]
             child == NamedChildren(model)[i][2]
             fqn == module_to_fqn(child, module, <<Dot>>)
         IN IF fqn # NoneStr THEN prefix \o <<name>> \o fqn
            ELSE FqnInChildren(model, module, prefix, i + 1)

module_to_fqn(model, module, prefix) ==
    IF module = model THEN EmptyStr
    ELSE FqnInChildren(model, module, prefix, 1)

RECURSIVE SplitFrom(_, _, _)
\* str.split("."): the segments between dots
SplitFrom(s, i, cur) ==
    IF i > Len(s) THEN <<cur>>
    ELSE IF s[i] = Dot THEN <<cur>> \o SplitFrom(s, i + 1, <<>>)
    ELSE SplitFrom(s, i + 1, Append(cur, s[i]))

Split(s) == SplitFrom(s, 1, <<>>)

\* getattr(model, name, None) for a path segment
GetAttr(model, seg) ==
    IF model = NoneMod \/ Len(seg) # 1 THEN NoneMod
    ELSE LET hits == {i \in 1 .. Len(NamedChildren(model)) :
                         NamedChildren(model)[i][1] = seg[1]}
         IN IF hits = {} THEN NoneMod
            ELSE NamedChildren(model)[CHOOSE i \in hits : TRUE][2]

RECURSIVE WalkPath(_, _, _)
WalkPath(model, segs, i) ==
    IF i > Len(segs) THEN model
    ELSE WalkPath(GetAttr(model, segs[i]), segs, i + 1)

fqn_to_module(model, path) ==
    IF path # EmptyStr THEN WalkPath(model, Split(path), 1) ELSE model

\* a module reference as stored under the key 'module': one module, or a tuple
One(m) == [tuple |-> FALSE, mods |-> <<m>>]
Tup(ms) == [tuple |-> TRUE, mods |-> ms]

get_arg_info_from_tensor_fqn(model, tensor_fqn) ==
    LET segs == Split(tensor_fqn)
        tensor_name == segs[Len(segs)]
        hasDot == \E i \in 1 .. Len(tensor_fqn) : tensor_fqn[i] = Dot
        k == Len(tensor_name) + (IF hasDot THEN 1 ELSE 0)
        module_fqn == IF k = 0 THEN EmptyStr
                      ELSE SubSeq(tensor_fqn, 1, Len(tensor_fqn) - k)
    IN [module_fqn |-> module_fqn,
        module |-> One(fqn_to_module(model, module_fqn)),
        tensor_name |-> tensor_name,
        tensor_fqn |-> tensor_fqn]

(***************************************************************************)
(* Python dicts are functions from keys to values.                         *)
(***************************************************************************)
EmptyDict == [k \in {} |-> 0]

\* d.update(other)
Update(d, other) == other @@ d

\* d.get(key, default)
Get(d, key, default) == IF key \in DOMAIN d THEN d[key] ELSE default

\* a configuration entry: a 2-tuple (or any tuple), a module, or a dict
TupleEntry(ms) == [kind |-> "tuple", items |-> ms]
ModuleEntry(m) == [kind |-> "module", module |-> m]
DictEntry(d) == [kind |-> "dict", dict |-> d]

(***************************************************************************)
(* make_config_from_model: stack-based traversal of the module tree.       *)
(***************************************************************************)
\* discovery leaving the needs-zeroing types out
IsDiscovered_skip_zeros(child, supported, needs_zeros) ==
    TypeOf(child) \in (supported \ needs_zeros)

\* discovery matching subclasses too
IsDiscovered_isinstance(child, supported, needs_zeros) ==
    IsInstance(child, supported)

\* line 123: the child becomes a config entry (and is not descended into)
IsDiscovered(child, supported, needs_zeros) == TypeOf(child) \in supported

\* line 126: the child is warned about (and descended into)
IsWarned(child, needs_zeros, prune_bias) ==
    TypeOf(child) \in needs_zeros /\ prune_bias

RECURSIVE DiscoverChildren(_, _, _, _, _, _, _)
\* the for-loop over module.named_children(), from child i on; acc holds
\* the stack, the config built so far and the children warned about
DiscoverChildren(model, module, i, supported, needs_zeros, prune_bias, acc) ==
    IF i > Len(NamedChildren(module)) THEN acc
    ELSE LET child == NamedChildren(module)[i][2]
             next ==
                 IF IsDiscovered(child, supported, needs_zeros)
                 THEN [acc EXCEPT !.config = Append(@,
                          DictEntry([tensor_fqn |->
                              module_to_fqn(model, child, EmptyStr) \o DotWeight]))]
                 ELSE [acc EXCEPT
                          !.warned = IF IsWarned(child, needs_zeros, prune_bias)
                                     THEN Append(@, child) ELSE @,
                          !.stack = Append(@, child)]
         IN DiscoverChildren(model, module, i + 1, supported, needs_zeros,
                             prune_bias, next)

RECURSIVE DiscoverLoop(_, _, _, _, _)
\* while stack: module = stack.pop(); ...
DiscoverLoop(model, supported, needs_zeros, prune_bias, acc) ==
    IF acc.stack = <<>> THEN acc
    ELSE LET module == acc.stack[Len(acc.stack)]
             popped == [acc EXCEPT !.stack = SubSeq(@, 1, Len(@) - 1)]
         IN DiscoverLoop(model, supported, needs_zeros, prune_bias,
                DiscoverChildren(model, module, 1, supported, needs_zeros,
                                 prune_bias, popped))

\* the config list and the warnings of one make_config_from_model call
Discover(model, supported, needs_zeros, prune_bias) ==
    DiscoverLoop(model, supported, needs_zeros, prune_bias,
                 [stack |-> <<model>>, config |-> <<>>, warned |-> <<>>])

(***************************************************************************)
(* prepare, lines 152-203: one configuration entry to one group record.    *)
(* The result is [err, args]; err is "none" or the exception raised.       *)
(***************************************************************************)
StripDot(module_fqn) ==
    IF module_fqn # EmptyStr /\ module_fqn[1] = Dot
    THEN SubSeq(module_fqn, 2, Len(module_fqn)) ELSE module_fqn

\* lines 162-170 for one module of the pair
PairFqn(model, module) ==
    LET fqn == module_to_fqn(model, module, EmptyStr)
    IN StripDot(IF fqn = NoneStr THEN EmptyStr ELSE fqn)

NormalizeTuple(model, defaults, items) ==
    IF Len(items) # 2 THEN [err |-> "ValueError", args |-> EmptyDict]
    ELSE IF ~(IsInstance(items[1], {"Conv2d"}) /\ IsInstance(items[2], {"BatchNorm2d"}))
    THEN [err |-> "AssertionError", args |-> EmptyDict]
    ELSE LET local_args == Update(defaults, [module |-> Tup(items)])
             fqns == [i \in 1 .. 2 |-> PairFqn(model, items[i])]
         IN [err |-> "none",
             args |-> Update(local_args,
                 [module_fqn |-> fqns,
                  tensor_fqn |-> [i \in 1 .. 2 |-> fqns[i] \o DotWeight],
                  tensor_name |-> [i \in 1 .. 2 |-> WeightStr]])]

\* the comparison that accepts whatever the entry gives
InfoAgrees_lenient(info, local_args) == TRUE

\* lines 187-193: every key recovered from the path agrees with the entry
InfoAgrees(info, local_args) ==
    \A key \in DOMAIN info :
        key \in DOMAIN local_args =>
            (key = "tensor_fqn" \/ info[key] = local_args[key])

NormalizeDict(model, defaults, d) ==
    LET local_args == Update(defaults, d)
    IN IF "tensor_fqn" \in DOMAIN local_args
       THEN LET info == get_arg_info_from_tensor_fqn(model, local_args["tensor_fqn"])
            IN IF InfoAgrees(info, local_args)
               THEN [err |-> "none", args |-> Update(local_args, info)]
               ELSE [err |-> "AssertionError", args |-> EmptyDict]
       ELSE IF "module" \notin DOMAIN local_args
       THEN [err |-> "KeyError", args |-> EmptyDict]
       ELSE LET module == local_args["module"].mods[1]
                fqn == module_to_fqn(model, module, EmptyStr)
            IN IF fqn = NoneStr
               THEN [err |-> "TypeError", args |-> EmptyDict]
               ELSE [err |-> "none",
                     args |-> Update(local_args,
                         [module_fqn |-> StripDot(fqn),
                          tensor_name |-> WeightStr,
                          tensor_fqn |-> StripDot(fqn) \o DotWeight])]

NormalizeEntry(model, defaults, e) ==
    IF e.kind = "tuple" THEN NormalizeTuple(model, defaults, e.items)
    ELSE IF e.kind = "module"
    THEN NormalizeDict(model, defaults, [module |-> One(e.module)])
    ELSE NormalizeDict(model, defaults, e.dict)

\* line 203: self.groups.append(local_args), unless the entry raised
AppendGroup(acc, r) ==
    IF r.err # "none" THEN [acc EXCEPT !.err = r.err]
    ELSE [acc EXCEPT !.groups = Append(@, r.args)]

RECURSIVE NormalizeFrom(_, _, _, _, _)
\* the for-loop of prepare from entry i on; acc is [err, groups]: groups
\* grows entry by entry and the first exception ends the loop
NormalizeFrom(model, defaults, cfg, i, acc) ==
    IF i > Len(cfg) \/ acc.err # "none" THEN acc
    ELSE NormalizeFrom(model, defaults, cfg, i + 1,
             AppendGroup(acc, NormalizeEntry(model, defaults, cfg[i])))

(***************************************************************************)
(* State.                                                                  *)
(***************************************************************************)
VARIABLES
    model,                \* self.model: the root handed to prepare
    config,               \* self.config
    defaults,             \* self.defaults
    prune_bias,           \* self.prune_bias
    groups,               \* self.groups
    enable_mask_update,   \* self.enable_mask_update
    activation_handles,   \* self.activation_handles
    bias_handles,         \* self.bias_handles
    mask,                 \* per module: the 'mask' buffer (its value), or NoMask
    parametrizations,     \* per module: module.parametrizations.weight, a list
    sets,                 \* the pruned_outputs set objects, by identity
    weight,               \* per module: the stored (original) weight tensor
    bias,                 \* per module: whether module.bias is a tensor
    side_bias,            \* per module: whether module._bias is registered
    forward_hooks,        \* per module: its forward hooks
    grad_enabled,         \* torch.is_grad_enabled()
    marked,               \* per module: the indices update_mask marked through it
    last,                 \* the last call: operation, arguments, outcome
    calls,                \* the update_mask invocations of the last step
    hist                  \* how prepare ended, and how the squash_mask calls
                          \* made since ended (the first MaxLog of them)

vars == <<model, config, defaults, prune_bias, groups, enable_mask_update,
          activation_handles, bias_handles, mask, parametrizations, sets,
          weight, bias, side_bias, forward_hooks, grad_enabled, marked,
          last, calls, hist>>

NoMask == -1

\* the part of the state that prepare and squash_mask rewrite, with the
\* exception raised so far
Heap ==
    [mask |-> mask, parametrizations |-> parametrizations, sets |-> sets,
     weight |-> weight, bias |-> bias, side_bias |-> side_bias,
     forward_hooks |-> forward_hooks, activation_handles |-> activation_handles,
     bias_handles |-> bias_handles, err |-> "none"]

Raise(h, e) == [h EXCEPT !.err = e]

(***************************************************************************)
(* The transformation layers (parametrization.py) and                      *)
(* torch.nn.utils.parametrize.                                             *)
(***************************************************************************)
RECURSIVE Sorted(_)
\* list(s) for a set of small integers
Sorted(s) ==
    IF s = {} THEN <<>>
    ELSE LET lo == CHOOSE x \in s : \A y \in s : x <= y
         IN <<lo>> \o Sorted(s \ {lo})

\* forward() of one layer on tensor x: [err, val]. ZeroesParametrization
\* zeroes the pruned rows; PruningParametrization, and the subclass of it that
\* the configurations call CustomParametrization, drops them
Forward(p, h, x) ==
    LET pruned == h.sets[p.pruned_outputs]
    IN IF p.cls = "ZeroesParametrization"
       THEN IF \E i \in pruned : i + 1 > Len(x)
            THEN [err |-> "IndexError", val |-> x]
            ELSE [err |-> "none",
                  val |-> [k \in 1 .. Len(x) |-> IF (k - 1) \in pruned THEN 0 ELSE x[k]]]
       ELSE LET valid == Sorted((0 .. (p.original_outputs - 1)) \ pruned)
            IN IF \E k \in 1 .. Len(valid) : valid[k] + 1 > Len(x)
               THEN [err |-> "IndexError", val |-> x]
               ELSE [err |-> "none", val |-> [k \in 1 .. Len(valid) |-> x[valid[k] + 1]]]

RECURSIVE ForwardChain(_, _, _, _)
\* the layers from the i-th on, applied to the result r so far
ForwardChain(ps, h, r, i) ==
    IF i > Len(ps) \/ r.err # "none" THEN r
    ELSE ForwardChain(ps, h, Forward(ps[i], h, r.val), i + 1)

\* getattr(module, 'weight'): the stored tensor seen through its layers
ReadWeight(h, m) ==
    ForwardChain(h.parametrizations[m], h, [err |-> "none", val |-> h.weight[m]], 1)

is_parametrized(h, m) == m \in Modules /\ h.parametrizations[m] # <<>>

\* register_parametrization(module, 'weight', cls(module.mask), unsafe=True):
\* a new layer with its own empty pruned_outputs set, appended to the list
register_parametrization(h, m, cls) ==
    LET id == Len(h.sets) + 1
        layer == [id |-> id, cls |-> cls, original_outputs |-> h.mask[m],
                  pruned_outputs |-> id]
    IN [h EXCEPT !.sets = Append(@, {}),
                 !.parametrizations[m] = Append(@, layer)]

\* remove_parametrizations(module, 'weight', leave_parametrized): the layers
\* go, and the stored tensor becomes the value read through them or stays
StoreWeight(h, m, r) ==
    IF r.err # "none" THEN Raise(h, r.err)
    ELSE [h EXCEPT !.weight[m] = r.val, !.parametrizations[m] = <<>>]

remove_parametrizations(h, m, leave_parametrized) ==
    IF ~is_parametrized(h, m) THEN Raise(h, "ValueError")
    ELSE IF ~leave_parametrized THEN [h EXCEPT !.parametrizations[m] = <<>>]
    ELSE StoreWeight(h, m, ReadWeight(h, m))

(***************************************************************************)
(* _get_modules_and_tensor_names, lines 49-74.                             *)
(***************************************************************************)
ResolveByPath(mdl, cfg) ==
    IF cfg["module"].tuple
    THEN [modules |-> [i \in 1 .. Len(cfg["module_fqn"]) |->
                          fqn_to_module(mdl, cfg["module_fqn"][i])],
          tensor_names |-> cfg["tensor_name"]]
    ELSE [modules |-> <<fqn_to_module(mdl, cfg["module_fqn"])>>,
          tensor_names |-> <<cfg["tensor_name"]>>]

ResolveByReference(cfg) ==
    IF cfg["module"].tuple
    THEN [modules |-> cfg["module"].mods, tensor_names |-> cfg["tensor_name"]]
    ELSE [modules |-> <<cfg["module"].mods[1]>>,
          tensor_names |-> <<cfg["tensor_name"]>>]

get_modules_and_tensor_names(mdl, cfg, use_path) ==
    IF use_path THEN ResolveByPath(mdl, cfg) ELSE ResolveByReference(cfg)

(***************************************************************************)
(* _prepare, lines 76-115.                                                 *)
(***************************************************************************)
\* the tensor attribute exists on the module
HasTensor(m, tensor_name) == m \in Modules /\ HasWeight(m) /\ tensor_name = WeightStr

\* the mask sized by the number of rows still to prune to
MaskValue_short(t) == Len(t) - 1

\* lines 88-89 and 103-104: the mask buffer, created once, holds shape[0]
MaskValue(t) == Len(t)

\* register_buffer('mask', torch.tensor(r.shape[0])) for the weight read as r
RegisterMask(h, m, r) ==
    IF r.err # "none" THEN Raise(h, r.err)
    ELSE [h EXCEPT !.mask[m] = MaskValue(r.val)]

InstallMask(h, m) ==
    IF h.mask[m] # NoMask THEN h ELSE RegisterMask(h, m, ReadWeight(h, m))

\* the branch taken on the exact type of the module
NeedsZeros_exact(m) == TypeOf(m) \in NEEDS_ZEROS

\* line 86: which branch a module takes
NeedsZeros(m) == IsInstance(m, NEEDS_ZEROS)

\* lines 90 and 105: the variant attached
Variant(cfg, m) ==
    IF NeedsZeros(m) THEN Get(cfg, "parametrization", "ZeroesParametrization")
    ELSE Get(cfg, "parametrization", "PruningParametrization")

\* a registered forward hook: what it is, on which module, the layer object it
\* holds, and (BiasHook) the prune_bias flag it was built with
Hook(kind, m, h, pb) ==
    [kind |-> kind, module |-> m, param |-> h.parametrizations[m][1].id,
     prune_bias |-> pb]

\* lines 90 and 105, after an exception nothing more runs
InstallParametrization(h, cfg, m) ==
    IF h.err # "none" THEN h
    ELSE register_parametrization(h, m, Variant(cfg, m))

\* the hook step passing over a module of an unsupported type
InstallActivationHook_lenient(h, m) ==
    IF h.err # "none" \/ NeedsZeros(m) \/ ~IsInstance(m, SUPPORTED_MODULES) THEN h
    ELSE LET hk == Hook("ActivationReconstruction", m, h, FALSE)
         IN [h EXCEPT !.activation_handles = Append(@, hk),
                      !.forward_hooks[m] = Append(@, hk)]

\* lines 95-100: the activation-reconstruction hook of a non-zeroing module
InstallActivationHook(h, m) ==
    IF h.err # "none" \/ NeedsZeros(m) THEN h
    ELSE IF IsInstance(m, SUPPORTED_MODULES)
    THEN LET hk == Hook("ActivationReconstruction", m, h, FALSE)
         IN [h EXCEPT !.activation_handles = Append(@, hk),
                      !.forward_hooks[m] = Append(@, hk)]
    ELSE Raise(h, "NotImplementedError")

\* lines 108-111: bias detachment and the bias hook
InstallBias(h, m, pb) ==
    IF h.err # "none" THEN h
    ELSE LET h1 == IF h.bias[m]
                   THEN [h EXCEPT !.side_bias[m] = TRUE, !.bias[m] = FALSE]
                   ELSE h
             hk == Hook("BiasHook", m, h1, pb)
         IN [h1 EXCEPT !.bias_handles = Append(@, hk),
                       !.forward_hooks[m] = Append(@, hk)]

\* lines 85-111 for one (module, tensor_name) pair
PrepareModule(h, cfg, m, tensor_name, pb) ==
    IF ~HasTensor(m, tensor_name) THEN Raise(h, "AttributeError")
    ELSE InstallBias(
             InstallActivationHook(
                 InstallParametrization(InstallMask(h, m), cfg, m), m),
             m, pb)

RECURSIVE PrepareModules(_, _, _, _, _)
PrepareModules(h, cfg, mt, i, pb) ==
    IF i > Len(mt.modules) \/ i > Len(mt.tensor_names) \/ h.err # "none" THEN h
    ELSE PrepareModules(PrepareModule(h, cfg, mt.modules[i], mt.tensor_names[i], pb),
                        cfg, mt, i + 1, pb)

\* the second module's layer gets a copy of the first module's set
SharePrunedOutputs_copy(h, first, second) ==
    [h EXCEPT !.sets = Append(@, h.sets[h.parametrizations[first][1].pruned_outputs]),
              !.parametrizations[second][1].pruned_outputs = Len(h.sets) + 1]

\* line 115: the second module's first layer takes the first module's set
\* object itself
SharePrunedOutputs(h, first, second) ==
    [h EXCEPT !.parametrizations[second][1].pruned_outputs =
                  h.parametrizations[first][1].pruned_outputs]

\* lines 113-115: a group of two modules shares the set
ShareIfPair(h, mt) ==
    IF h.err = "none" /\ Len(mt.modules) = 2
    THEN SharePrunedOutputs(h, mt.modules[1], mt.modules[2])
    ELSE h

\* lines 84-115 for the modules and tensor names mt of one group
PrepareResolved(h, cfg, mt, pb) == ShareIfPair(PrepareModules(h, cfg, mt, 1, pb), mt)

\* lines 83-115 for one group
PrepareGroup(h, mdl, cfg, use_path, pb) ==
    PrepareResolved(h, cfg, get_modules_and_tensor_names(mdl, cfg, use_path), pb)

RECURSIVE PrepareGroups(_, _, _, _, _, _)
PrepareGroups(h, mdl, grps, i, use_path, pb) ==
    IF i > Len(grps) \/ h.err # "none" THEN h
    ELSE PrepareGroups(PrepareGroup(h, mdl, grps[i], use_path, pb),
                       mdl, grps, i + 1, use_path, pb)

\* _prepare: the handle lists start empty, then every group is installed
DoPrepare(h, mdl, grps, use_path, pb) ==
    PrepareGroups([h EXCEPT !.activation_handles = <<>>, !.bias_handles = <<>>],
                  mdl, grps, 1, use_path, pb)

\* prepare installing the groups normalized so far before it raises
InstallNormalized_partial(h, mdl, norm, pb) ==
    Raise(DoPrepare(h, mdl, norm.groups, FALSE, pb),
          IF norm.err # "none" THEN norm.err
          ELSE DoPrepare(h, mdl, norm.groups, FALSE, pb).err)

\* lines 152-205: _prepare runs after the loop over the entries has ended,
\* so not at all when an entry raised
InstallNormalized(h, mdl, norm, pb) ==
    IF norm.err # "none" THEN Raise(h, norm.err)
    ELSE DoPrepare(h, mdl, norm.groups, FALSE, pb)

(***************************************************************************)
(* squash_mask, lines 207-218.                                             *)
(***************************************************************************)
\* lines 214-218: neither getattr on the two stores finds an attribute
\* named 'mask' (the stores are dicts), so delattr removes the buffer
DeleteMask(h, m) ==
    IF h.err # "none" THEN h
    ELSE IF h.mask[m] = NoMask THEN Raise(h, "AttributeError")
    ELSE [h EXCEPT !.mask[m] = NoMask]

\* squash_mask skipping a module that carries no layer
SquashModule_skip(h, m, tensor_name) ==
    IF ~is_parametrized(h, m) THEN h
    ELSE DeleteMask(remove_parametrizations(h, m, TRUE), m)

\* squash_mask dropping the layers without keeping the masked value
SquashModule_discard(h, m, tensor_name) ==
    IF ~HasTensor(m, tensor_name) THEN Raise(h, "ValueError")
    ELSE DeleteMask(remove_parametrizations(h, m, FALSE), m)

\* squash_mask also detaching the module's hooks and putting its bias back
SquashModule_unhook(h, m, tensor_name) ==
    IF ~HasTensor(m, tensor_name) THEN Raise(h, "ValueError")
    ELSE LET h1 == DeleteMask(remove_parametrizations(h, m, TRUE), m)
         IN IF h1.err # "none" THEN h1
            ELSE [h1 EXCEPT !.forward_hooks[m] = <<>>,
                            !.bias[m] = h.side_bias[m] \/ h.bias[m],
                            !.side_bias[m] = FALSE]

SquashModule(h, m, tensor_name) ==
    IF ~HasTensor(m, tensor_name) THEN Raise(h, "ValueError")
    ELSE DeleteMask(remove_parametrizations(h, m, TRUE), m)

RECURSIVE SquashModules(_, _, _)
SquashModules(h, mt, i) ==
    IF i > Len(mt.modules) \/ i > Len(mt.tensor_names) \/ h.err # "none" THEN h
    ELSE SquashModules(SquashModule(h, mt.modules[i], mt.tensor_names[i]), mt, i + 1)

RECURSIVE SquashGroups(_, _, _, _, _)
SquashGroups(h, mdl, grps, i, use_path) ==
    IF i > Len(grps) \/ h.err # "none" THEN h
    ELSE SquashGroups(
             SquashModules(h, get_modules_and_tensor_names(mdl, grps[i], use_path), 1),
             mdl, grps, i + 1, use_path)

(***************************************************************************)
(* update_mask (abstract, lines 240-242) and step, lines 225-238.          *)
(* A concrete updater marks a set of indices pruned, in place, in the      *)
(* pruned_outputs set of the first layer of the module it is handed (the   *)
(* first one when handed a tuple), or raises.                              *)
(***************************************************************************)
UpdateTarget(kwargs) == kwargs["module"].mods[1]

\* acc: [sets, marked, calls, err]; h: the heap the loop runs on
update_mask(acc, h, kwargs, marks, raises) ==
    LET m == UpdateTarget(kwargs)
        seen == [acc EXCEPT !.calls = Append(@, [kwargs |-> kwargs, grad |-> acc.grad])]
    IN IF raises THEN [seen EXCEPT !.err = "UpdaterError"]
       ELSE IF ~is_parametrized(h, m) THEN [seen EXCEPT !.err = "AttributeError"]
       ELSE LET id == h.parametrizations[m][1].pruned_outputs
            IN [seen EXCEPT !.sets[id] = @ \cup marks,
                            !.marked[m] = @ \cup marks]

\* lines 232-237: the resolved first module and tensor name, built and unused
UntupledArgs(mt) == [module |-> One(mt.modules[1]), tensor_name |-> mt.tensor_names[1]]

\* line 238: what update_mask is called with
UpdateMaskArgs(cfg, untupled_args) == cfg

RECURSIVE StepEachModule(_, _, _, _, _, _, _)
StepEachModule(acc, h, cfg, mt, k, marks, raises) ==
    IF k > Len(mt.modules) \/ acc.err # "none" THEN acc
    ELSE StepEachModule(
             update_mask(acc, h,
                 Update(cfg, [module |-> One(mt.modules[k]),
                              tensor_name |-> mt.tensor_names[k]]),
                 marks, raises),
             h, cfg, mt, k + 1, marks, raises)

\* step invoking the updater once for each module of the group
StepGroup_each(acc, h, mdl, cfg, use_path, marks, raises) ==
    StepEachModule(acc, h, cfg, get_modules_and_tensor_names(mdl, cfg, use_path),
                   1, marks, raises)

\* lines 230-238 for one group
StepGroup(acc, h, mdl, cfg, use_path, marks, raises) ==
    LET mt == get_modules_and_tensor_names(mdl, cfg, use_path)
    IN update_mask(acc, h, UpdateMaskArgs(cfg, UntupledArgs(mt)), marks, raises)

RECURSIVE StepGroups(_, _, _, _, _, _, _, _)
StepGroups(acc, h, mdl, grps, i, use_path, marks, raiseAt) ==
    IF i > Len(grps) \/ acc.err # "none" THEN acc
    ELSE StepGroups(StepGroup(acc, h, mdl, grps[i], use_path, marks, raiseAt = i),
                    h, mdl, grps, i + 1, use_path, marks, raiseAt)

\* step running the loop whatever the flag says
StepEnabled_always(enabled) == TRUE

\* lines 226-227: the early return
StepEnabled(enabled) == enabled

\* step switching gradient tracking off and back on by hand: an exception
\* leaves it off
DoStep_leak(h, mdl, grps, enabled, grad, mk, use_path, marks, raiseAt) ==
    LET start == [sets |-> h.sets, marked |-> mk, calls |-> <<>>, err |-> "none",
                  grad |-> grad]
    IN IF ~StepEnabled(enabled) THEN start
       ELSE LET inside == [start EXCEPT !.grad = FALSE]
                done == StepGroups(inside, h, mdl, grps, 1, use_path, marks, raiseAt)
            IN IF done.err # "none" THEN done ELSE [done EXCEPT !.grad = grad]

\* torch.no_grad(): gradient tracking is off inside the scope and the state
\* found on entry is put back on exit, also when the body raises
DoStep(h, mdl, grps, enabled, grad, mk, use_path, marks, raiseAt) ==
    LET start == [sets |-> h.sets, marked |-> mk, calls |-> <<>>, err |-> "none",
                  grad |-> grad]
    IN IF ~StepEnabled(enabled) THEN start
       ELSE LET inside == [start EXCEPT !.grad = FALSE]
                done == StepGroups(inside, h, mdl, grps, 1, use_path, marks, raiseAt)
            IN [done EXCEPT !.grad = grad]

(***************************************************************************)
(* get_module_pruned_outputs, lines 220-223: [err, ret]                    *)
(***************************************************************************)
PrunedOutputsOf(h, m) == h.sets[h.parametrizations[m][1].pruned_outputs]

\* the query without its assertion
get_module_pruned_outputs_unchecked(h, m) ==
    IF ~is_parametrized(h, m) THEN [err |-> "none", ret |-> {}]
    ELSE [err |-> "none", ret |-> PrunedOutputsOf(h, m)]

get_module_pruned_outputs(h, m) ==
    IF ~is_parametrized(h, m) THEN [err |-> "AssertionError", ret |-> {}]
    ELSE [err |-> "none", ret |-> PrunedOutputsOf(h, m)]

(***************************************************************************)
(* The calls the caller makes.                                             *)
(***************************************************************************)
FcWeight == <<"seq", Dot, "fc", Dot, "weight">>

\* the configurations handed to prepare, by name; "None" is config=None
ConfigMenu ==
    [None     |-> <<>>,
     empty    |-> <<>>,
     pair     |-> << TupleEntry(<<"conv", "bn">>) >>,
     pair_fc  |-> << TupleEntry(<<"conv", "bn">>), ModuleEntry("fc") >>,
     fc_pair  |-> << DictEntry([tensor_fqn |-> FcWeight]),
                     TupleEntry(<<"conv", "bn">>) >>,
     dicts    |-> << DictEntry([module |-> One("conv")]), ModuleEntry("bn"),
                     DictEntry([tensor_fqn |-> FcWeight, module |-> One("fc"),
                                sparsity_level |-> "most"]) >>,
     sub      |-> << ModuleEntry("sub") >>,
     emb      |-> << ModuleEntry("fc"), ModuleEntry("emb"), ModuleEntry("conv") >>,
     badtuple |-> << ModuleEntry("fc"), TupleEntry(<<"bn", "conv">>) >>,
     mismatch |-> << ModuleEntry("conv"),
                     DictEntry([tensor_fqn |-> FcWeight,
                                module_fqn |-> <<"conv">>]) >>,
     sub_fc   |-> << DictEntry([tensor_fqn |-> <<"fc", Dot, "weight">>]) >>,
     zeros_sub |-> << ModuleEntry("bnsub") >>,
     custom   |-> << DictEntry([module |-> One("conv"),
                                parametrization |-> "CustomParametrization"]),
                     DictEntry([module |-> One("bn"),
                                parametrization |-> "CustomParametrization"]) >>,
     mismatch_module |-> << DictEntry([tensor_fqn |-> FcWeight,
                                       module |-> One("sub")]) >>,
     mismatch_name   |-> << DictEntry([tensor_fqn |-> FcWeight,
                                       tensor_name |-> <<"bias">>]) >>,
     twice    |-> << ModuleEntry("fc"), DictEntry([tensor_fqn |-> FcWeight]) >>,
     own      |-> << ModuleEntry("fc") >>,
     own_path |-> << DictEntry([tensor_fqn |-> WeightStr]) >>]

\* the (model, configuration) pairs prepare is called with: every entry names
\* a module of the model at most once
PrepareInputs ==
    ({"root"} \X (DOMAIN ConfigMenu \ {"sub_fc", "own", "own_path", "twice"}))
        \cup ({"seq"} \X {"None", "sub_fc", "sub"})
        \cup ({"fc"} \X {"own", "own_path"})

\* the (supported, needs-zeroing) sets make_config_from_model is called with
DiscoverySets ==
    [default    |-> <<SUPPORTED_MODULES, NEEDS_ZEROS>>,
     no_bn      |-> <<{"Linear", "Conv2d"}, NEEDS_ZEROS>>,
     containers |-> <<{"Sequential", "LinearSub"}, {}>>]

\* the defaults dict the pruner is constructed with
DefaultsMenu == {[sparsity_level |-> "half"]}

NoCall == [op |-> "init", result |-> "none", use_path |-> FALSE, model |-> NoneMod,
           arg |-> "", ret |-> {}, warned |-> <<>>]

Init ==
    /\ model = NoneMod
    /\ config = <<>>
    /\ defaults \in DefaultsMenu
    /\ prune_bias \in BOOLEAN
    /\ groups = <<>>
    /\ enable_mask_update = TRUE
    /\ activation_handles = <<>>
    /\ bias_handles = <<>>
    /\ mask = [m \in Modules |-> NoMask]
    /\ parametrizations = [m \in Modules |-> <<>>]
    /\ sets = <<>>
    /\ weight = [m \in Modules |->
                    IF HasWeight(m) THEN [k \in 1 .. NumOutputs |-> k] ELSE <<>>]
    /\ bias = [m \in Modules |-> HasBiasInit(m)]
    /\ side_bias = [m \in Modules |-> FALSE]
    /\ forward_hooks = [m \in Modules |-> <<>>]
    /\ grad_enabled = TRUE
    /\ marked = [m \in Modules |-> {}]
    /\ last = NoCall
    /\ calls = <<>>
    /\ hist = [prepare |-> "never", squashes |-> <<>>]

SetHeap(h) ==
    /\ mask' = h.mask
    /\ parametrizations' = h.parametrizations
    /\ sets' = h.sets
    /\ weight' = h.weight
    /\ bias' = h.bias
    /\ side_bias' = h.side_bias
    /\ forward_hooks' = h.forward_hooks
    /\ activation_handles' = h.activation_handles
    /\ bias_handles' = h.bias_handles

HeapVars == <<mask, parametrizations, sets, weight, bias, side_bias,
              forward_hooks, activation_handles, bias_handles>>

\* prepare(model, config), lines 131-205
PrepareCall(mdl, name) ==
    LET found == Discover(mdl, SUPPORTED_MODULES, NEEDS_ZEROS, prune_bias)
        cfg == IF name = "None" THEN found.config ELSE ConfigMenu[name]
        norm == NormalizeFrom(mdl, defaults, cfg, 1,
                              [err |-> "none", groups |-> groups])
        h == InstallNormalized(Heap, mdl, norm, prune_bias)
    IN /\ model' = mdl
       /\ config' = cfg
       /\ groups' = norm.groups
       /\ SetHeap(h)
       /\ marked' = [m \in Modules |->
                        IF parametrizations[m] = <<>> /\ h.parametrizations[m] # <<>>
                        THEN {} ELSE marked[m]]
       /\ last' = [NoCall EXCEPT !.op = "prepare", !.result = h.err, !.arg = name,
                                 !.model = mdl,
                                 !.warned = IF name = "None" THEN found.warned ELSE <<>>]
       /\ calls' = <<>>
       /\ hist' = [prepare |-> h.err, squashes |-> <<>>]
       /\ UNCHANGED <<defaults, prune_bias, enable_mask_update, grad_enabled>>

\* the caller prepares a pruner once
Prepare ==
    /\ model = NoneMod
    /\ \E in \in PrepareInputs : PrepareCall(in[1], in[2])

\* make_config_from_model also storing a group for every entry it discovers
MakeConfigFromModel_appends ==
    \E mdl \in (IF model = NoneMod THEN {"root", "seq"} ELSE {model}),
       ss \in DOMAIN DiscoverySets :
        LET found == Discover(mdl, DiscoverySets[ss][1], DiscoverySets[ss][2],
                              prune_bias)
        IN /\ config' = found.config
           /\ groups' = NormalizeFrom(mdl, defaults, found.config, 1,
                                      [err |-> "none", groups |-> groups]).groups
           /\ last' = [NoCall EXCEPT !.op = "make_config_from_model", !.model = mdl,
                                     !.arg = ss, !.warned = found.warned]
           /\ calls' = <<>>
           /\ UNCHANGED <<model, defaults, prune_bias, enable_mask_update,
                          grad_enabled, marked, hist>>
           /\ UNCHANGED HeapVars

\* make_config_from_model(model, SUPPORTED_MODULES, NEEDS_ZEROS), lines 117-129
MakeConfigFromModel ==
    \E mdl \in (IF model = NoneMod THEN {"root", "seq"} ELSE {model}),
       ss \in DOMAIN DiscoverySets :
        LET found == Discover(mdl, DiscoverySets[ss][1], DiscoverySets[ss][2],
                              prune_bias)
        IN /\ config' = found.config
           /\ last' = [NoCall EXCEPT !.op = "make_config_from_model", !.model = mdl,
                                     !.arg = ss, !.warned = found.warned]
           /\ calls' = <<>>
           /\ UNCHANGED <<model, defaults, prune_bias, groups, enable_mask_update,
                          grad_enabled, marked, hist>>
           /\ UNCHANGED HeapVars

\* what one update_mask invocation marks: nothing, or one more index
MarkChoices == {{}} \cup {{i} : i \in Idx}

\* the updater has choices to make only when step gets to invoke it
UpdaterRuns == enable_mask_update /\ groups # <<>>

\* step(use_path), lines 225-238, with the updater's choices as inputs
Step ==
    \E use_path \in BOOLEAN,
       marks \in (IF UpdaterRuns THEN MarkChoices ELSE {{}}),
       raiseAt \in (IF UpdaterRuns THEN 0 .. Len(groups) ELSE {0}) :
        LET r == DoStep(Heap, model, groups, enable_mask_update, grad_enabled,
                        marked, use_path, marks, raiseAt)
        IN /\ sets' = r.sets
           /\ marked' = r.marked
           /\ calls' = r.calls
           /\ grad_enabled' = r.grad
           /\ last' = [NoCall EXCEPT !.op = "step", !.result = r.err,
                                     !.use_path = use_path]
           /\ UNCHANGED <<model, config, defaults, prune_bias, groups,
                          enable_mask_update, activation_handles, bias_handles,
                          mask, parametrizations, weight, bias, side_bias,
                          forward_hooks, hist>>

\* squash_mask(use_path), lines 207-218
SquashMask ==
    \E use_path \in BOOLEAN :
        LET h == SquashGroups(Heap, model, groups, 1, use_path)
        IN /\ SetHeap(h)
           /\ last' = [NoCall EXCEPT !.op = "squash_mask", !.result = h.err,
                                     !.use_path = use_path]
           /\ calls' = <<>>
           /\ hist' = IF hist.prepare = "never" \/ Len(hist.squashes) >= MaxLog
                      THEN hist
                      ELSE [hist EXCEPT !.squashes = Append(@, h.err)]
           /\ UNCHANGED <<model, config, defaults, prune_bias, groups,
                          enable_mask_update, grad_enabled, marked>>

\* get_module_pruned_outputs(module), lines 220-223
GetModulePrunedOutputs ==
    \E m \in {x \in Modules : HasWeight(x)} :
        LET r == get_module_pruned_outputs(Heap, m)
        IN /\ last' = [NoCall EXCEPT !.op = "get_module_pruned_outputs",
                                     !.result = r.err, !.arg = m, !.ret = r.ret]
           /\ calls' = <<>>
           /\ UNCHANGED <<model, config, defaults, prune_bias, groups,
                          enable_mask_update, grad_enabled, marked, hist>>
           /\ UNCHANGED HeapVars

\* the caller switches mask updates on or off (BaseSparsifier.enable_mask_update)
SetEnableMaskUpdate ==
    /\ enable_mask_update' = ~enable_mask_update
    /\ last' = [NoCall EXCEPT !.op = "enable_mask_update"]
    /\ calls' = <<>>
    /\ UNCHANGED <<model, config, defaults, prune_bias, groups, grad_enabled,
                   marked, hist>>
    /\ UNCHANGED HeapVars

\* the caller switches gradient tracking on or off (torch.set_grad_enabled)
SetGradEnabled ==
    /\ grad_enabled' = ~grad_enabled
    /\ last' = [NoCall EXCEPT !.op = "set_grad_enabled"]
    /\ calls' = <<>>
    /\ UNCHANGED <<model, config, defaults, prune_bias, groups,
                   enable_mask_update, marked, hist>>
    /\ UNCHANGED HeapVars

Next ==
    \/ Prepare
    \/ MakeConfigFromModel
    \/ Step
    \/ SquashMask
    \/ GetModulePrunedOutputs
    \/ SetEnableMaskUpdate

Spec == Init /\ [][Next]_vars

(***************************************************************************)
(* The same pruner used without the caller's restraint: prepare may be     *)
(* called again on the same model, a configuration may name a module in    *)
(* more than one entry, and gradient tracking may be off when step is      *)
(* called.                                                                 *)
(***************************************************************************)
RepeatInputs == {"root"} \X {"own", "twice", "pair"}

PrepareMore ==
    /\ Len(groups) < MaxGroups
    /\ \E in \in RepeatInputs :
          /\ model \in {NoneMod, in[1]}
          /\ PrepareCall(in[1], in[2])

NextRepeat ==
    \/ PrepareMore
    \/ Step
    \/ SquashMask
    \/ SetGradEnabled

SpecRepeat == Init /\ [][NextRepeat]_vars

(***************************************************************************)
(* Properties.                                                             *)
(***************************************************************************)
GroupModules(g) == g["module"].mods

\* every module of every group carries its mask and its layer
Installed(m) == is_parametrized(Heap, m) /\ mask[m] # NoMask

PairedGroups == {i \in 1 .. Len(groups) : groups[i]["module"].tuple}

\* C1: for every paired group whose two modules are installed, the first
\* layer of the second module refers to the very set object the first
\* layer of the first module refers to, so every index the updater marked
\* through the first module is read through the second
C1_PairedSetsAliased ==
    \A i \in PairedGroups :
        LET first == GroupModules(groups[i])[1]
            second == GroupModules(groups[i])[2]
        IN (Installed(first) /\ Installed(second)) =>
              /\ parametrizations[second][1].pruned_outputs
                    = parametrizations[first][1].pruned_outputs
              /\ marked[first] \subseteq PrunedOutputsOf(Heap, second)

\* C1 witness: a step marked an index through the convolution of a paired
\* group and the normalization layer's set shows it
C1_Witness ==
    /\ last.op = "step" /\ last.result = "none"
    /\ PairedGroups # {}
    /\ Installed("conv") /\ Installed("bn")
    /\ marked["conv"] # {}
    /\ marked["bn"] = {}
    /\ PrunedOutputsOf(Heap, "bn") = marked["conv"]

PreparedOk == hist.prepare = "none"

\* C2: once prepare has succeeded with at least one group, the first
\* squash_mask call made returns normally and every later one raises
C2_SquashNotIdempotent ==
    (PreparedOk /\ groups # <<>>) =>
        \A k \in 1 .. Len(hist.squashes) :
            IF k = 1 THEN hist.squashes[k] = "none"
            ELSE hist.squashes[k] = "ValueError"

\* C2 witness: two squash_mask calls were made after a successful prepare
C2_Witness ==
    /\ PreparedOk /\ groups # <<>>
    /\ Len(hist.squashes) >= 2
    /\ last.op = "squash_mask" /\ last.result = "ValueError"

AllGroupModules == UNION {{GroupModules(groups[i])[k] : k \in 1 .. Len(GroupModules(groups[i]))}
                             : i \in 1 .. Len(groups)}

\* C3: a squash_mask call that returns normally after a successful prepare
\* leaves every module of every group without layer and without mask, its
\* stored tensor being the value that was read through the layers before
C3_SquashKeepsMaskedValue ==
    [][(last'.op = "squash_mask" /\ PreparedOk /\ last'.result = "none") =>
          \A m \in AllGroupModules :
              /\ parametrizations'[m] = <<>>
              /\ mask'[m] = NoMask
              /\ is_parametrized(Heap, m) => weight'[m] = ReadWeight(Heap, m).val]_vars

\* C3 witness: a paired group was squashed with an index pruned: the
\* convolution lost the row and the normalization layer has it zeroed
C3_Witness ==
    /\ last.op = "squash_mask" /\ last.result = "none" /\ PreparedOk
    /\ PairedGroups # {}
    /\ Len(weight["conv"]) < NumOutputs
    /\ \E k \in 1 .. Len(weight["bn"]) : weight["bn"][k] = 0
    /\ mask["conv"] = NoMask /\ mask["bn"] = NoMask

\* C4: a mask is created holding the dimension-0 size its tensor has at that
\* moment, keeps that value while it exists, and no step call changes a mask
C4_MaskLength ==
    [][/\ \A m \in Modules :
             /\ (mask[m] = NoMask /\ mask'[m] # NoMask) =>
                    mask'[m] = Len(ReadWeight(Heap, m).val)
             /\ (mask[m] # NoMask /\ mask'[m] # NoMask) => mask'[m] = mask[m]
       /\ last'.op = "step" => mask' = mask]_vars

\* C4 witness: a step has pruned an index of a prepared module, whose mask
\* still holds the size it was installed with
C4_Witness ==
    /\ last.op = "step"
    /\ Installed("fc")
    /\ PrunedOutputsOf(Heap, "fc") # {}
    /\ mask["fc"] = NumOutputs

(***************************************************************************)
(* The module tree seen from outside the traversal.                        *)
(***************************************************************************)
ChildrenOf(m) == {NamedChildren(m)[i][2] : i \in 1 .. Len(NamedChildren(m))}

RECURSIVE DescendantsOf(_)
DescendantsOf(m) == ChildrenOf(m) \cup UNION {DescendantsOf(c) : c \in ChildrenOf(m)}

ParentOf(m) == CHOOSE p \in Modules : m \in ChildrenOf(p)

NameOf(m) ==
    LET p == ParentOf(m)
    IN NamedChildren(p)[CHOOSE i \in 1 .. Len(NamedChildren(p)) :
                            NamedChildren(p)[i][2] = m][1]

RECURSIVE PathFrom(_, _)
\* the dotted path of descendant m below mdl
PathFrom(mdl, m) ==
    IF ParentOf(m) = mdl THEN <<NameOf(m)>>
    ELSE PathFrom(mdl, ParentOf(m)) \o <<Dot, NameOf(m)>>

\* the strict ancestors of m below mdl
AncestorsBelow(mdl, m) == {a \in DescendantsOf(mdl) : m \in DescendantsOf(a)}

\* the modules auto-discovery is to select under mdl: exact type in the
\* supported set, and no selected module above them
Selected(mdl) ==
    {m \in DescendantsOf(mdl) :
        /\ TypeOf(m) \in SUPPORTED_MODULES
        /\ \A a \in AncestorsBelow(mdl, m) : TypeOf(a) \notin SUPPORTED_MODULES}

ConfigPaths == {config[i].dict["tensor_fqn"] : i \in {j \in 1 .. Len(config) : config[j].kind = "dict"
                                                       /\ "tensor_fqn" \in DOMAIN config[j].dict}}

\* auto-discovery with the default sets ran in the last call
AutoDiscovered ==
    \/ last.op = "prepare" /\ last.arg = "None"
    \/ last.op = "make_config_from_model" /\ last.arg = "default"

BatchNormsUnder(mdl) == {m \in DescendantsOf(mdl) : TypeOf(m) = "BatchNorm2d"}

\* C5 as stated: auto-discovery with the default sets warns about every
\* BatchNorm2d child and leaves its weight out of the generated config
C5_AsStated ==
    AutoDiscovered =>
        \A b \in BatchNormsUnder(last.model) :
            /\ \E k \in 1 .. Len(last.warned) : last.warned[k] = b
            /\ (PathFrom(last.model, b) \o DotWeight) \notin ConfigPaths

\* C5 amended: auto-discovery with the default sets, of which BatchNorm2d is
\* a supported type, puts the weight of every BatchNorm2d child reached into
\* the generated config, warns about nothing and does not raise
C5_BatchNormDiscovered ==
    AutoDiscovered =>
        /\ last.result = "none"
        /\ last.warned = <<>>
        /\ \A b \in BatchNormsUnder(last.model) :
               (PathFrom(last.model, b) \o DotWeight) \in ConfigPaths

\* C5 witness: auto-discovery ran on the tree that holds the BatchNorm2d
C5_Witness ==
    /\ AutoDiscovered
    /\ last.model = "root"
    /\ BatchNormsUnder(last.model) = {"bn"}
    /\ <<"bn", Dot, "weight">> \in ConfigPaths

\* C6: prepare with config None stores exactly one group for each module
\* selected under the model and no other group; the group names that module
\* alone and its tensor_fqn is the module's path followed by ".weight"
C6_AutoDiscoveryGroups ==
    (last.op = "prepare" /\ last.arg = "None") =>
        /\ Len(groups) = Cardinality(Selected(model))
        /\ \A m \in Selected(model) :
               \E i \in 1 .. Len(groups) :
                   /\ groups[i]["module"] = One(m)
                   /\ groups[i]["tensor_fqn"] = PathFrom(model, m) \o DotWeight
        /\ \A i \in 1 .. Len(groups) :
               /\ ~groups[i]["module"].tuple
               /\ GroupModules(groups[i])[1] \in Selected(model)

\* C6 witness: auto-discovery on the whole tree, which holds a nested
\* Linear, an instance of a subclass of Linear and unsupported modules
C6_Witness ==
    /\ last.op = "prepare" /\ last.arg = "None" /\ model = "root"
    /\ Len(groups) = 3
    /\ \E i \in 1 .. Len(groups) : groups[i]["tensor_fqn"] = FcWeight
    /\ "sub" \in DescendantsOf(model) /\ ~Installed("sub")

StepRan == last.op = "step" /\ enable_mask_update

\* C7: a step call made with mask updates enabled invokes update_mask for
\* the groups in their stored order, each at most once, and for every group
\* exactly once when it returns normally
C7_OncePerGroupInOrder ==
    StepRan =>
        /\ Len(calls) <= Len(groups)
        /\ \A i \in 1 .. Len(calls) :
               calls[i].kwargs["module"] = groups[i]["module"]
        /\ last.result = "none" => Len(calls) = Len(groups)

\* C7 witness: a step over a paired group followed by a plain group
C7_Witness ==
    /\ StepRan /\ last.result = "none"
    /\ Len(groups) = 2 /\ 1 \in PairedGroups
    /\ Len(calls) = 2

\* C8 as stated: every update_mask invocation of step gets one resolved
\* module (for a paired group the first of the pair), not a tuple
C8_AsStated ==
    StepRan =>
        \A i \in 1 .. Len(calls) :
            /\ ~calls[i].kwargs["module"].tuple
            /\ calls[i].kwargs["module"]
                  = UntupledArgs(get_modules_and_tensor_names(
                                     model, groups[i], last.use_path)).module

\* C9: a step call made with mask updates disabled invokes nothing, returns
\* normally and changes no group, mask, layer, set, tensor or hook
C9_DisabledStepNoOp ==
    [][(last'.op = "step" /\ ~enable_mask_update) =>
          /\ calls' = <<>>
          /\ last'.result = "none"
          /\ UNCHANGED <<groups, config, model, marked, grad_enabled>>
          /\ UNCHANGED HeapVars]_vars

\* C9 witness: a disabled step by path on a prepared pruner with a paired
\* group whose set already holds an index
C9_Witness ==
    /\ last.op = "step" /\ ~enable_mask_update /\ last.use_path
    /\ PairedGroups # {}
    /\ Installed("conv")
    /\ PrunedOutputsOf(Heap, "conv") # {}
    /\ calls = <<>>

\* the indices update_mask marked that belong to module m's set: those
\* marked through m, and through the first module of a pair m is second in
MarkedFor(m) ==
    marked[m] \cup UNION {marked[GroupModules(groups[i])[1]] :
                             i \in {j \in PairedGroups : GroupModules(groups[j])[2] = m}}

\* C10: get_module_pruned_outputs raises on a module that carries no layer,
\* returns for any other module the indices marked so far, and changes
\* nothing
C10_PrunedOutputsQuery ==
    [][last'.op = "get_module_pruned_outputs" =>
          /\ IF is_parametrized(Heap, last'.arg)
             THEN last'.result = "none" /\ last'.ret = MarkedFor(last'.arg)
             ELSE last'.result = "AssertionError"
          /\ UNCHANGED <<groups, config, model, marked, grad_enabled, hist,
                         enable_mask_update>>
          /\ UNCHANGED HeapVars]_vars

\* C10 witness: the normalization layer of a paired group was queried after
\* a step and the indices marked through the convolution came back
C10_Witness ==
    /\ last.op = "get_module_pruned_outputs" /\ last.arg = "bn"
    /\ last.result = "none"
    /\ PairedGroups # {}
    /\ last.ret # {}
    /\ last.ret = marked["conv"]

\* C10 second case: a query after squash_mask failed
C10_WitnessSquashed ==
    /\ last.op = "get_module_pruned_outputs" /\ last.result = "AssertionError"
    /\ PreparedOk /\ Len(hist.squashes) >= 1 /\ hist.squashes[1] = "none"
    /\ last.arg \in AllGroupModules

\* C11: a make_config_from_model call replaces the config list by what the
\* traversal discovers and changes nothing else: no mask, layer, set, tensor,
\* bias or hook of any module, no handle list, and not the list of groups
C11_MakeConfigInstallsNothing ==
    [][last'.op = "make_config_from_model" =>
          /\ UNCHANGED HeapVars
          /\ UNCHANGED <<groups, model, marked, enable_mask_update, grad_enabled>>
          /\ \A i \in 1 .. Len(config') :
                 /\ config'[i].kind = "dict"
                 /\ DOMAIN config'[i].dict = {"tensor_fqn"}]_vars

\* C11 witness: make_config_from_model ran on a prepared pruner whose groups
\* and layers are in place, and discovered entries
C11_Witness ==
    /\ last.op = "make_config_from_model"
    /\ PreparedOk /\ Len(groups) = 1
    /\ Len(config) = 3
    /\ Installed("sub") /\ ~Installed("fc")

\* C12 as stated: in every state every pruned tensor carries at most one
\* transformation layer
C12_AsStated == \A m \in Modules : Len(parametrizations[m]) <= 1

\* a module that is an instance of no supported and of no needs-zeroing type
Unsupported(m) == ~IsInstance(m, SUPPORTED_MODULES \cup NEEDS_ZEROS)

UnsupportedGroups ==
    {i \in 1 .. Len(groups) : \E k \in 1 .. Len(GroupModules(groups[i])) :
                                  Unsupported(GroupModules(groups[i])[k])}

\* mask, one layer and the bias hook of the module are in place
FullyInstalled(m) ==
    /\ mask[m] # NoMask
    /\ Len(parametrizations[m]) = 1
    /\ \E k \in 1 .. Len(bias_handles) : bias_handles[k].module = m
    /\ \E k \in 1 .. Len(forward_hooks[m]) : forward_hooks[m][k].kind = "BiasHook"

\* the module is as it was constructed
Untouched(m) ==
    /\ mask[m] = NoMask
    /\ parametrizations[m] = <<>>
    /\ forward_hooks[m] = <<>>
    /\ bias[m] = HasBiasInit(m) /\ ~side_bias[m]

\* C13: a prepare call whose configuration normalizes and selects a module of
\* an unsupported type raises NotImplementedError; the groups before the
\* first such group are installed, the groups after it are untouched
C13_UnsupportedNoRollback ==
    (last.op = "prepare" /\ Len(groups) = Len(config) /\ UnsupportedGroups # {}) =>
        LET k == CHOOSE i \in UnsupportedGroups : \A j \in UnsupportedGroups : i <= j
        IN /\ last.result = "NotImplementedError"
           /\ \A i \in 1 .. (k - 1) :
                  \A n \in 1 .. Len(GroupModules(groups[i])) :
                      FullyInstalled(GroupModules(groups[i])[n])
           /\ \A i \in (k + 1) .. Len(groups) :
                  \A n \in 1 .. Len(GroupModules(groups[i])) :
                      Untouched(GroupModules(groups[i])[n])

\* C13 witness: the Embedding is the second of three groups
C13_Witness ==
    /\ last.op = "prepare" /\ last.result = "NotImplementedError"
    /\ Len(groups) = 3 /\ UnsupportedGroups = {2}
    /\ FullyInstalled("fc") /\ Untouched("conv")
    /\ mask["emb"] # NoMask /\ forward_hooks["emb"] = <<>>

\* how many times the groups name module m
Occurrences(m) ==
    Cardinality({p \in (1 .. Len(groups)) \X (1 .. 2) :
                    /\ p[2] <= Len(GroupModules(groups[p[1]]))
                    /\ GroupModules(groups[p[1]])[p[2]] = m})

ActivationHooksOf(m) ==
    Cardinality({k \in 1 .. Len(activation_handles) : activation_handles[k].module = m})

\* the variant a group record asks for on a module, zeroing or not
ExpectedVariant(g, isZeroing) ==
    IF "parametrization" \in DOMAIN g THEN g["parametrization"]
    ELSE IF isZeroing THEN "ZeroesParametrization" ELSE "PruningParametrization"

\* after a prepare that returned normally: every layer on a module is the
\* variant a group naming the module asks for, a module among the zeroing
\* ones has no activation-reconstruction hook, and any other module has one
\* for each time the groups name it
VariantRule(zeroing) ==
    PreparedOk =>
        \A i \in 1 .. Len(groups) :
            \A n \in 1 .. Len(GroupModules(groups[i])) :
                LET m == GroupModules(groups[i])[n]
                IN /\ \A j \in 1 .. Len(parametrizations[m]) :
                          \E g \in {groups[x] : x \in {y \in 1 .. Len(groups) :
                                     \E z \in 1 .. Len(GroupModules(groups[y])) :
                                         GroupModules(groups[y])[z] = m}} :
                              parametrizations[m][j].cls
                                  = ExpectedVariant(g, m \in zeroing)
                   /\ ActivationHooksOf(m)
                          = IF m \in zeroing THEN 0 ELSE Occurrences(m)

\* C14 as stated: the zeroing modules are those whose exact type is in the
\* needs-zeroing set
C14_AsStated == VariantRule({m \in Modules : TypeOf(m) \in NEEDS_ZEROS})

\* C14 amended: the zeroing modules are the instances of a needs-zeroing
\* type, instances of its subclasses included; they get the zero-filling
\* variant and no activation-reconstruction hook, every other installed
\* module gets the dimension-removing variant and one such hook per
\* installation, and a 'parametrization' key replaces the default variant
C14_VariantByInstance == VariantRule({m \in Modules : IsInstance(m, NEEDS_ZEROS)})

\* C14 witness: an instance of a subclass of BatchNorm2d has been prepared
C14_Witness ==
    /\ PreparedOk /\ last.op = "prepare"
    /\ TypeOf("bnsub") \notin NEEDS_ZEROS
    /\ Len(parametrizations["bnsub"]) = 1
    /\ parametrizations["bnsub"][1].cls = "ZeroesParametrization"
    /\ ActivationHooksOf("bnsub") = 0
    /\ Len(bias_handles) = 1

\* the module found under mdl at a dotted path, mdl itself for the empty path
ModuleAt(mdl, fqn) ==
    IF fqn = EmptyStr THEN mdl
    ELSE LET hits == {m \in DescendantsOf(mdl) : PathFrom(mdl, m) = fqn}
         IN IF hits = {} THEN NoneMod ELSE CHOOSE m \in hits : TRUE

\* what a tensor path says: its last name is the tensor, the names before the
\* last dot are the path of the module
RecoveredFrom(mdl, path) ==
    LET module_fqn == IF Len(path) >= 2 THEN SubSeq(path, 1, Len(path) - 2)
                      ELSE EmptyStr
    IN [module_fqn |-> module_fqn,
        tensor_name |-> <<path[Len(path)]>>,
        module |-> One(ModuleAt(mdl, module_fqn))]

Recoverable == {"module", "module_fqn", "tensor_name"}

\* the entry gives no recoverable field a value other than the recovered one
EntryAgrees(d, rec) == \A key \in Recoverable \cap DOMAIN d : d[key] = rec[key]

PathEntries ==
    {i \in 1 .. Len(config) :
        config[i].kind = "dict" /\ "tensor_fqn" \in DOMAIN config[i].dict}

\* C15: after a prepare call, for every dict entry that gives tensor_fqn: if
\* it was normalized its explicit recoverable fields agree with the path,
\* its group carries the recovered fields and the path, its other keys as
\* given and the defaults it does not give; if it disagrees with the path and
\* the entries before it were normalized, prepare raised AssertionError at it
C15_PathEntryValidated ==
    last.op = "prepare" =>
        \A i \in PathEntries :
            LET d == config[i].dict
                rec == RecoveredFrom(model, d["tensor_fqn"])
            IN /\ i <= Len(groups) =>
                      /\ EntryAgrees(d, rec)
                      /\ \A key \in Recoverable : groups[i][key] = rec[key]
                      /\ groups[i]["tensor_fqn"] = d["tensor_fqn"]
                      /\ \A key \in DOMAIN d \ Recoverable : groups[i][key] = d[key]
                      /\ \A key \in DOMAIN defaults \ DOMAIN d :
                             key \notin Recoverable => groups[i][key] = defaults[key]
               /\ (~EntryAgrees(d, rec) /\ Len(groups) >= i - 1) =>
                      /\ last.result = "AssertionError"
                      /\ Len(groups) = i - 1

\* C15 witness: the second entry gives a module path other than the one its
\* tensor path holds
C15_Witness ==
    /\ last.op = "prepare" /\ last.result = "AssertionError"
    /\ 2 \in PathEntries
    /\ "module_fqn" \in DOMAIN config[2].dict
    /\ ~EntryAgrees(config[2].dict, RecoveredFrom(model, config[2].dict["tensor_fqn"]))
    /\ Len(groups) = 1

\* C15 second case: an entry that agrees with its path and overrides a default
C15_WitnessAgrees ==
    /\ last.op = "prepare" /\ last.result = "none"
    /\ 3 \in PathEntries /\ Len(groups) = 3
    /\ "module" \in DOMAIN config[3].dict
    /\ groups[3]["sparsity_level"] = "most"
    /\ defaults["sparsity_level"] = "half"
    /\ groups[1]["sparsity_level"] = "half"

LeadingDot(path) == path # EmptyStr /\ path[1] = Dot

\* one stored path triple is derivable and carries no leading dot
PathDerivable(module_fqn, tensor_name, tensor_fqn) ==
    /\ tensor_fqn = module_fqn \o <<Dot>> \o tensor_name
    /\ ~LeadingDot(tensor_fqn)
    /\ ~LeadingDot(module_fqn)

\* C16 as stated: every stored group has tensor_fqn = module_fqn + "." +
\* tensor_name (element by element for a paired group) and no stored path
\* starts with a dot
C16_AsStated ==
    \A i \in 1 .. Len(groups) :
        IF groups[i]["module"].tuple
        THEN \A n \in 1 .. Len(groups[i]["module_fqn"]) :
                 PathDerivable(groups[i]["module_fqn"][n], groups[i]["tensor_name"][n],
                               groups[i]["tensor_fqn"][n])
        ELSE PathDerivable(groups[i]["module_fqn"], groups[i]["tensor_name"],
                           groups[i]["tensor_fqn"])

\* C17 as stated: every update_mask invocation of a step call is for a group
\* whose modules carry their mask at that time: prepare has installed it
\* and squash_mask has not removed it
C17_AsStated ==
    StepRan =>
        \A i \in 1 .. Len(calls) :
            \A n \in 1 .. Len(calls[i].kwargs["module"].mods) :
                LET m == calls[i].kwargs["module"].mods[n]
                IN m \in Modules /\ mask[m] # NoMask

\* C18: every update_mask invocation of a step call runs with gradient
\* tracking off, and gradient tracking after the call is what it was before
\* it, whether the call returns or raises
C18_NoGradScope ==
    [][last'.op = "step" =>
          /\ grad_enabled' = grad_enabled
          /\ \A i \in 1 .. Len(calls') : ~calls'[i].grad]_vars

\* C18 witness: with gradient tracking on, the updater raised at the second
\* group of a step call, after an invocation that ran with tracking off
C18_Witness ==
    /\ last.op = "step" /\ last.result = "UpdaterError"
    /\ Len(calls) = 2 /\ ~calls[1].grad /\ ~calls[2].grad
    /\ grad_enabled

\* C18 second case: a step call made with gradient tracking already off
C18_WitnessOff ==
    /\ last.op = "step" /\ last.result = "none"
    /\ Len(calls) >= 1 /\ ~calls[1].grad
    /\ ~grad_enabled

\* C19: a prepare call that raises before every entry of its configuration
\* has been normalized leaves every mask, layer, set, tensor, bias, hook and
\* handle list as it was
C19_NormalizationFailureInstallsNothing ==
    [][(last'.op = "prepare" /\ Len(groups') - Len(groups) < Len(config')) =>
          /\ last'.result # "none"
          /\ UNCHANGED HeapVars]_vars

\* C19 witness: the second entry is a malformed pair: the group of the first
\* entry is stored and its module is untouched
C19_Witness ==
    /\ last.op = "prepare" /\ last.result = "AssertionError"
    /\ Len(config) = 2 /\ config[2].kind = "tuple"
    /\ Len(groups) = 1 /\ GroupModules(groups[1]) = <<"fc">>
    /\ Untouched("fc")

\* C20: a squash_mask call leaves the two handle lists, the forward hooks of
\* every module, the live and the side bias of every module, the groups, the
\* config and the model as they were; after a successful prepare every group
\* module constructed with a bias still has it detached in the side
\* parameter
C20_SquashKeepsHooksAndBias ==
    [][last'.op = "squash_mask" =>
          /\ UNCHANGED <<activation_handles, bias_handles, forward_hooks, bias,
                         side_bias, groups, config, model>>
          /\ PreparedOk =>
                 \A m \in AllGroupModules :
                     HasBiasInit(m) => (~bias'[m] /\ side_bias'[m])]_vars

\* C20 witness: a paired group has been squashed: the masks are gone, the
\* hooks and the detached biases are still there
C20_Witness ==
    /\ last.op = "squash_mask" /\ last.result = "none" /\ PreparedOk
    /\ PairedGroups # {}
    /\ mask["conv"] = NoMask /\ parametrizations["bn"] = <<>>
    /\ Len(forward_hooks["conv"]) = 2 /\ Len(forward_hooks["bn"]) = 1
    /\ Len(activation_handles) >= 1 /\ Len(bias_handles) >= 2
    /\ side_bias["conv"] /\ ~bias["conv"]

====
